---- MODULE Spec2Model ----
(***************************************************************************)
(* Bus delay prediction service: the background model loader, the          *)
(* readiness state kept in app.config, the /ready and /predict handlers,   *)
(* the model store (load_model / get_model) and the payload normalizer and *)
(* predictor (_payload_to_dataframe / predict_with_model).                 *)
(*                                                                         *)
(* The specifications share the variables:                                 *)
(*   Spec       the application lifecycle: create_app, the loader thread   *)
(*              writing app.config key by key, and request handlers whose  *)
(*              reads of app.config interleave with it;                    *)
(*   SpecLegacy the same lifecycle with the handlers of backend/api.py;    *)
(*   SpecFair   the lifecycle with a fairly scheduled loader thread;       *)
(*   SpecStore  sequences of get_model calls against a changing artifact;  *)
(*   SpecNorm   predict_with_model as a pure function, applied to payloads *)
(*              and model handles drawn from bounded sets.                 *)
(***************************************************************************)
EXTENDS Integers, Sequences, FiniteSets, TLC

VARIABLES
    disk,          \* what the model artifact path holds (environment)
    cached,        \* backend/utils/loader.py _CACHED_MODEL
    config,        \* app.config: MODEL, LOAD_ERROR, MODEL_LOADED
    createPc,      \* position of create_app
    loaderPc,      \* position of the loader thread
    loaderWrites,  \* the app.config writes the loader thread is to perform
    loaderIdx,     \* how many of them it has performed
    reqs,          \* request handlers in flight, one record per handler
    nPc,           \* SpecNorm: position of the predict_with_model call
    nModel,        \* SpecNorm: the model handle argument
    nPayload,      \* SpecNorm: the payload argument
    nDf,           \* SpecNorm: the row-set _payload_to_dataframe returned
    nRes,          \* SpecNorm: what predict_with_model returned or raised
    sCall,         \* SpecStore: the last get_model call and its outcome
    sLast          \* SpecStore: the handle the most recent successful load produced

lifeVars == <<disk, cached, config, createPc, loaderPc, loaderWrites, loaderIdx, reqs>>
normVars == <<nPc, nModel, nPayload, nDf, nRes>>
storeVars == <<sCall, sLast>>
vars == <<disk, cached, config, createPc, loaderPc, loaderWrites, loaderIdx, reqs,
          nPc, nModel, nPayload, nDf, nRes, sCall, sLast>>

(***************************************************************************)
(* Bounds                                                                  *)
(***************************************************************************)
\* request handlers that can be in flight at once
NumReq == 1
\* longest list payload / longest column list of a column-oriented payload
MaxRows == 2

Range(s) == {s[i] : i \in 1..Len(s)}

(***************************************************************************)
(* Python values                                                           *)
(***************************************************************************)
\* None, where a string or a handle name could stand
PyNone == "<None>"
\* Python truthiness of an Optional[str]: None and "" are falsy
Truthy(s) == s # PyNone /\ s # ""

\* JSON scalars inside objects: a number, a string whose text is a number,
\* a string that is no number, and the null/NaN marker of a row-set
Num(n) == [t |-> "num", v |-> n]
NStr(n) == [t |-> "nstr", v |-> n]
StrX == [t |-> "str", v |-> 0]
Null == [t |-> "null", v |-> 0]
ListVal(l) == [t |-> "list", l |-> l]
IsList(v) == v.t = "list"

\* a JSON object is its key/value pairs in document order, keys distinct
Keys(o) == [i \in 1..Len(o) |-> o[i][1]]
KeySet(o) == {o[i][1] : i \in 1..Len(o)}
ValueOf(o, k) == o[CHOOSE i \in 1..Len(o) : o[i][1] = k][2]

\* parsed JSON values
JNull == [kind |-> "null"]
JScalar == [kind |-> "scalar"]
JObject(o) == [kind |-> "object", obj |-> o]
JList(items) == [kind |-> "list", items |-> items]

(***************************************************************************)
(* Exceptions and results                                                  *)
(***************************************************************************)
NoExc == [type |-> "none", msg |-> ""]
Exc(type, msg) == [type |-> type, msg |-> msg]
Raised(r) == r.exc.type # "none"

(***************************************************************************)
(* Model handles: what pickle.load can return.  The handle is opaque to    *)
(* the service, which inspects only: predict, the type name (Booster or    *)
(* not) and feature_names_in_.  The remaining fields describe how the      *)
(* underlying library call behaves: whether it accepts missing values and  *)
(* non-numeric columns, which columns it was trained on and whether it     *)
(* validates them, the exception it raises, and the shape of what it       *)
(* returns.                                                                *)
(***************************************************************************)
FeatureList == <<"c", "a">>
BoosterColumns == <<"a", "z">>

Handles ==
    [h \in {"XGBRegressor", "Booster", "StrictEstimator", "SqueezeEstimator", "ScalarEstimator"} |->
        CASE h = "XGBRegressor" ->
               \* xgboost sklearn wrapper: missing values are data; its errors are
               \* XGBoostError / ValueError
               [booster |-> FALSE, hasPredict |-> TRUE, hasFeatures |-> TRUE,
                features |-> FeatureList, expects |-> FeatureList, validates |-> TRUE,
                nullOk |-> TRUE, strOk |-> FALSE, errType |-> "ValueError", out |-> "ndarray"]
          [] h = "Booster" ->
               \* raw xgboost.core.Booster: no feature_names_in_, needs a DMatrix
               [booster |-> TRUE, hasPredict |-> TRUE, hasFeatures |-> FALSE,
                features |-> <<>>, expects |-> BoosterColumns, validates |-> TRUE,
                nullOk |-> TRUE, strOk |-> FALSE, errType |-> "ValueError", out |-> "ndarray"]
          [] h = "StrictEstimator" ->
               \* an estimator that rejects missing values with a TypeError
               [booster |-> FALSE, hasPredict |-> TRUE, hasFeatures |-> TRUE,
                features |-> FeatureList, expects |-> FeatureList, validates |-> TRUE,
                nullOk |-> FALSE, strOk |-> FALSE, errType |-> "TypeError", out |-> "ndarray"]
          [] h = "SqueezeEstimator" ->
               \* an estimator whose predict squeezes its result: a numpy scalar
               \* (0-d) for one row, a 1-d ndarray otherwise
               [booster |-> FALSE, hasPredict |-> TRUE, hasFeatures |-> FALSE,
                features |-> <<>>, expects |-> <<>>, validates |-> FALSE,
                nullOk |-> TRUE, strOk |-> TRUE, errType |-> "TypeError", out |-> "npscalar"]
          [] h = "ScalarEstimator" ->
               \* an estimator that returns a Python float for one row
               [booster |-> FALSE, hasPredict |-> TRUE, hasFeatures |-> TRUE,
                features |-> FeatureList, expects |-> FeatureList, validates |-> TRUE,
                nullOk |-> TRUE, strOk |-> FALSE, errType |-> "TypeError", out |-> "pyfloat"]]

HandleNames == DOMAIN Handles

(***************************************************************************)
(* Row-sets (pandas.DataFrame): ordered columns, ordered rows, every row a *)
(* function from the column names to cells.                                *)
(***************************************************************************)
EmptyDf == [columns |-> <<>>, rows |-> <<>>]
ColumnSet(df) == Range(df.columns)

RECURSIVE UnionColumns(_, _)
\* the keys of the records in order of first appearance
UnionColumns(items, acc) ==
    IF items = <<>> THEN acc
    ELSE UnionColumns(Tail(items),
                      acc \o SelectSeq(Keys(Head(items)), LAMBDA k : k \notin Range(acc)))

\* pd.DataFrame(list of dicts): one row per record, a key a record lacks is NaN
DataFrameFromRecords(items) ==
    LET cols == UnionColumns(items, <<>>)
    IN [exc |-> NoExc,
        df |-> [columns |-> cols,
                rows |-> [i \in 1..Len(items) |->
                            [c \in Range(cols) |->
                                IF c \in KeySet(items[i]) THEN ValueOf(items[i], c) ELSE Null]]]]

\* pd.DataFrame(dict) with list values: each key a column; the lists must have
\* one common length, scalars are broadcast to it
DataFrameFromDict(o) ==
    LET lens == {Len(o[i][2].l) : i \in {j \in 1..Len(o) : IsList(o[j][2])}}
        n == CHOOSE k \in lens : TRUE
    IN IF Cardinality(lens) > 1
       THEN [exc |-> Exc("ValueError", "All arrays must be of the same length"), df |-> EmptyDf]
       ELSE [exc |-> NoExc,
             df |-> [columns |-> Keys(o),
                     rows |-> [i \in 1..n |->
                                 [c \in KeySet(o) |->
                                     IF IsList(ValueOf(o, c)) THEN ValueOf(o, c).l[i]
                                     ELSE ValueOf(o, c)]]]]

\* df.reindex(columns=required): exactly the required columns in their order,
\* a required column the frame lacks is NaN in every row
ReindexKeepingOrder(df, required) ==
    LET cols == SelectSeq(df.columns, LAMBDA c : c \in Range(required))
                  \o SelectSeq(required, LAMBDA c : c \notin ColumnSet(df))
    IN [columns |-> cols,
        rows |-> [i \in 1..Len(df.rows) |->
                    [c \in Range(cols) |->
                        IF c \in ColumnSet(df) THEN df.rows[i][c] ELSE Null]]]

Reindex(df, required) ==
    [columns |-> required,
     rows |-> [i \in 1..Len(df.rows) |->
                 [c \in Range(required) |->
                     IF c \in ColumnSet(df) THEN df.rows[i][c] ELSE Null]]]

\* pd.to_numeric(column): numbers and missing values stay, numeric strings are
\* parsed; a string that is no number makes it raise
NumericLike(cell) == cell.t \in {"num", "nstr", "null"}
ToNumericCell(cell) == IF cell.t = "nstr" THEN Num(cell.v) ELSE cell
ColumnConvertible(df, c) == \A i \in 1..Len(df.rows) : NumericLike(df.rows[i][c])

\* the loop over df.columns: convert a column, or leave it unchanged if
\* pd.to_numeric raised
CoerceNumeric(df) ==
    [columns |-> df.columns,
     rows |-> [i \in 1..Len(df.rows) |->
                 [c \in ColumnSet(df) |->
                     IF ColumnConvertible(df, c) THEN ToNumericCell(df.rows[i][c])
                     ELSE df.rows[i][c]]]]

\* the isinstance dispatch of _payload_to_dataframe
BuildFrame(payload) ==
    CASE payload.kind = "object" ->
           IF \A i \in 1..Len(payload.obj) : ~IsList(payload.obj[i][2])
           THEN DataFrameFromRecords(<<payload.obj>>)
           ELSE DataFrameFromDict(payload.obj)
      [] payload.kind = "list" -> DataFrameFromRecords(payload.items)
      [] OTHER -> [exc |-> Exc("ValueError", "Unsupported JSON format"), df |-> EmptyDf]

\* _payload_to_dataframe(payload, model)
payload_to_dataframe_RejectingEmpty(payload, model) ==
    LET built == BuildFrame(payload)
        aligned == IF model # PyNone /\ Handles[model].hasFeatures
                   THEN Reindex(built.df, Handles[model].features)
                   ELSE built.df
    IN IF Raised(built) THEN built
       ELSE IF built.df.columns = <<>>
       THEN [exc |-> Exc("ValueError", "Unsupported JSON format"), df |-> EmptyDf]
       ELSE [exc |-> NoExc, df |-> CoerceNumeric(aligned)]

payload_to_dataframe(payload, model) ==
    LET built == BuildFrame(payload)
        aligned == IF model # PyNone /\ Handles[model].hasFeatures
                   THEN Reindex(built.df, Handles[model].features)
                   ELSE built.df
    IN IF Raised(built) THEN built
       ELSE [exc |-> NoExc, df |-> CoerceNumeric(aligned)]

(***************************************************************************)
(* Predictor                                                               *)
(***************************************************************************)
IsString(cell) == cell.t \in {"str", "nstr"}
HasString(df) == \E i \in 1..Len(df.rows) : \E c \in ColumnSet(df) : IsString(df.rows[i][c])
HasNull(df) == \E i \in 1..Len(df.rows) : \E c \in ColumnSet(df) : df.rows[i][c].t = "null"

CellValue(cell) == IF cell.t \in {"num", "nstr"} THEN cell.v ELSE 0

RECURSIVE WeightedSum(_, _, _)
WeightedSum(row, cols, j) ==
    IF j > Len(cols) THEN 0
    ELSE j * CellValue(row[cols[j]]) + WeightedSum(row, cols, j + 1)

\* what the fitted model computes for one row (any function of the row's
\* cells and their column positions serves)
RowScore(df, i) == WeightedSum(df.rows[i], df.columns, 1)

NoPreds == [kind |-> "none", vals |-> <<>>]

\* model.predict(data): the underlying library call
ModelPredict(model, df) ==
    LET h == Handles[model]
        rejects == \/ HasString(df) /\ ~h.strOk
                   \/ HasNull(df) /\ ~h.nullOk
                   \/ h.validates /\ df.columns # h.expects
        scores == [i \in 1..Len(df.rows) |-> RowScore(df, i)]
    IN IF rejects
       THEN [exc |-> Exc(h.errType, "library error text"), raw |-> NoPreds]
       ELSE [exc |-> NoExc,
             raw |-> [kind |-> IF Len(df.rows) = 1 THEN h.out ELSE "ndarray",
                      vals |-> scores]]

\* xgb.DMatrix(df): object-dtype columns are refused with a ValueError
DMatrix(df) ==
    IF HasString(df)
    THEN Exc("ValueError", "DataFrame.dtypes for data must be int, float, bool or category")
    ELSE NoExc

\* preds.tolist() if preds has tolist, else [float(preds)].  An ndarray and a
\* numpy scalar both have tolist; on a numpy scalar it returns a bare number.
OutputToList(raw) ==
    IF raw.kind = "npscalar" THEN [json |-> "number", vals |-> raw.vals]
    ELSE [json |-> "array", vals |-> raw.vals]

NoOutput == [json |-> "none", vals |-> <<>>]

\* predict_with_model after the row-set is built: the dispatch on the handle,
\* the library call and the conversion of its result
PredictOnFrame(model, df) ==
    IF model # PyNone /\ Handles[model].hasPredict /\ ~Handles[model].booster
    THEN LET r == ModelPredict(model, df)
         IN [exc |-> r.exc, source |-> IF Raised(r) THEN "model" ELSE "none", invoked |-> TRUE,
             preds |-> IF Raised(r) THEN NoOutput ELSE OutputToList(r.raw)]
    ELSE IF DMatrix(df).type # "none"
    THEN [exc |-> DMatrix(df), source |-> "model", invoked |-> FALSE, preds |-> NoOutput]
    ELSE IF model = PyNone \/ ~Handles[model].hasPredict
    THEN [exc |-> Exc("AttributeError", "object has no attribute 'predict'"),
          source |-> "handle", invoked |-> FALSE, preds |-> NoOutput]
    ELSE LET r == ModelPredict(model, df)
         IN [exc |-> r.exc, source |-> IF Raised(r) THEN "model" ELSE "none", invoked |-> TRUE,
             preds |-> IF Raised(r) THEN NoOutput ELSE OutputToList(r.raw)]

\* predict_with_model(model, payload)
predict_with_model(model, payload) ==
    LET norm == payload_to_dataframe(payload, model)
    IN IF Raised(norm)
       THEN [exc |-> norm.exc, source |-> "normalizer", invoked |-> FALSE, preds |-> NoOutput]
       ELSE PredictOnFrame(model, norm.df)

(***************************************************************************)
(* Model store                                                             *)
(***************************************************************************)
LoadFailures == {"missing", "unpickling_error", "io_error", "pickled_none"}

\* load_model(path) against what the path holds
load_model_AcceptingNone(artifact) ==
    CASE artifact = "missing" ->
           [exc |-> Exc("FileNotFoundError", "Model file not found at PATH"), model |-> PyNone]
      [] artifact = "unpickling_error" ->
           [exc |-> Exc("RuntimeError", "Failed to load model from PATH"), model |-> PyNone]
      [] artifact = "io_error" ->
           [exc |-> Exc("RuntimeError", "Unexpected error loading model from PATH"), model |-> PyNone]
      [] artifact = "pickled_none" -> [exc |-> NoExc, model |-> PyNone]
      [] OTHER -> [exc |-> NoExc, model |-> artifact]

load_model(artifact) ==
    CASE artifact = "missing" ->
           [exc |-> Exc("FileNotFoundError", "Model file not found at PATH"), model |-> PyNone]
      [] artifact = "unpickling_error" ->
           [exc |-> Exc("RuntimeError", "Failed to load model from PATH"), model |-> PyNone]
      [] artifact = "io_error" ->
           [exc |-> Exc("RuntimeError", "Unexpected error loading model from PATH"), model |-> PyNone]
      [] artifact = "pickled_none" ->
           [exc |-> Exc("RuntimeError", "Model loaded from PATH is None"), model |-> PyNone]
      [] OTHER -> [exc |-> NoExc, model |-> artifact]

\* get_model(path, reload) against the cache and what the path holds: the
\* outcome, the handle returned, the cache afterwards and whether the
\* artifact was read
get_model_ClearingOnFailure(cache, artifact, reload) ==
    IF reload \/ cache = PyNone
    THEN LET r == load_model(artifact)
         IN [exc |-> r.exc, model |-> r.model, cache |-> r.model, loaded |-> TRUE]
    ELSE [exc |-> NoExc, model |-> cache, cache |-> cache, loaded |-> FALSE]

get_model(cache, artifact, reload) ==
    IF reload \/ cache = PyNone
    THEN LET r == load_model(artifact)
         IN [exc |-> r.exc, model |-> r.model,
             cache |-> IF Raised(r) THEN cache ELSE r.model, loaded |-> TRUE]
    ELSE [exc |-> NoExc, model |-> cache, cache |-> cache, loaded |-> FALSE]

\* the record of a get_model call: its arguments, the cache it found, and
\* what it did
NoCall == [reload |-> FALSE, before |-> PyNone, artifact |-> PyNone, exc |-> NoExc,
           model |-> PyNone, loaded |-> FALSE, made |-> FALSE]

(***************************************************************************)
(* HTTP surface: responses and the pure parts of the handlers              *)
(***************************************************************************)
NoResp == [status |-> 0]
NoBody == [raw |-> "none"]
BodyMalformed == [raw |-> "malformed"]
BodyEmpty == [raw |-> "empty"]
Json(v) == [raw |-> "json", json |-> v]

\* the readiness state a handler sees in MODEL_LOADED and LOAD_ERROR
ReadinessOf(ml, le) == IF ml THEN "ready" ELSE IF Truthy(le) THEN "failed" ELSE "loading"
Readiness == ReadinessOf(config.MODEL_LOADED, config.LOAD_ERROR)

\* /ready: the response for the values read
ReadyResponseTwoState(ml, le) ==
    IF ml THEN [status |-> 200, ready |-> TRUE]
    ELSE [status |-> 503, ready |-> FALSE, message |-> "model loading"]

ReadyResponse(ml, le) ==
    IF ml THEN [status |-> 200, ready |-> TRUE]
    ELSE IF Truthy(le) THEN [status |-> 500, ready |-> FALSE, error |-> le]
    ELSE [status |-> 503, ready |-> FALSE, message |-> "model loading"]

\* /predict: the readiness gate for the values read; NoResp lets the request through
PredictGateModelMissing(ml, le) ==
    IF ~ml THEN [status |-> 500, error |-> "Model not loaded", details |-> le]
    ELSE NoResp

PredictGate(ml, le) ==
    IF ~ml
    THEN IF Truthy(le)
         THEN [status |-> 500, error |-> "Model failed to load", details |-> le]
         ELSE [status |-> 503, error |-> "Model is still loading, try again shortly"]
    ELSE NoResp

\* request.get_json(force=True) and the None check: the 400 it ends in, or
\* NoResp when a payload was parsed
ParseResponse(body) ==
    CASE body.raw \in {"malformed", "empty"} ->
           [status |-> 400, error |-> "Invalid JSON", details |-> "400 Bad Request"]
      [] body.raw = "json" /\ body.json.kind = "null" ->
           [status |-> 400, error |-> "Empty request body"]
      [] OTHER -> NoResp

\* the try/except around the prediction call
PredictionResponseNoValueError(run) ==
    IF ~Raised(run) THEN [status |-> 200, predictions |-> run.preds]
    ELSE [status |-> 500, error |-> "Prediction failed", details |-> "Internal server error"]

PredictionResponse(run) ==
    IF ~Raised(run) THEN [status |-> 200, predictions |-> run.preds]
    ELSE IF run.exc.type = "ValueError"
    THEN [status |-> 400, error |-> "Unsupported JSON format", details |-> run.exc.msg]
    ELSE [status |-> 500, error |-> "Prediction failed", details |-> "Internal server error"]

NoRun == [exc |-> NoExc, source |-> "none", invoked |-> FALSE, preds |-> NoOutput]

\* run_prediction(payload): get_model() from the cache, then predict_with_model
run_prediction_Reloading(cache, artifact, payload) ==
    LET got == get_model(cache, artifact, TRUE)
    IN [store |-> got,
        run |-> IF Raised(got)
                THEN [exc |-> got.exc, source |-> "store", invoked |-> FALSE, preds |-> NoOutput]
                ELSE predict_with_model(got.model, payload)]

run_prediction(cache, artifact, payload) ==
    LET got == get_model(cache, artifact, FALSE)
    IN [store |-> got,
        run |-> IF Raised(got)
                THEN [exc |-> got.exc, source |-> "store", invoked |-> FALSE, preds |-> NoOutput]
                ELSE predict_with_model(got.model, payload)]

(***************************************************************************)
(* Application lifecycle                                                   *)
(***************************************************************************)
\* the app.config writes of _background_model_loader, in program order
SuccessWritesFlagFirst(model) ==
    << <<"MODEL_LOADED", TRUE>>, <<"MODEL", model>>, <<"LOAD_ERROR", PyNone>> >>

SuccessWrites(model) ==
    << <<"MODEL", model>>, <<"LOAD_ERROR", PyNone>>, <<"MODEL_LOADED", TRUE>> >>

FailureWritesNoMessage(msg) ==
    << <<"MODEL", PyNone>>, <<"LOAD_ERROR", "">>, <<"MODEL_LOADED", FALSE>> >>

FailureWritesErrorFirst(msg) ==
    << <<"LOAD_ERROR", msg>>, <<"MODEL", PyNone>>, <<"MODEL_LOADED", FALSE>> >>

FailureWrites(msg) ==
    << <<"MODEL", PyNone>>, <<"LOAD_ERROR", msg>>, <<"MODEL_LOADED", FALSE>> >>

\* what the artifact path can hold in the lifecycle specification
Artifacts == LoadFailures \cup {"XGBRegressor", "Booster", "StrictEstimator"}

Req == 1..NumReq

EmptyObjects(n) == JList([i \in 1..n |-> <<>>])
ValidBody == Json(JObject(<< <<"a", Num(1)>>, <<"z", Num(2)>> >>))

\* the request bodies of the lifecycle specification
Bodies ==
    {BodyMalformed, BodyEmpty, Json(JNull), Json(JScalar), ValidBody,
     Json(JObject(<< <<"a", StrX>> >>)),
     Json(JList(<< << <<"a", Num(1)>> >>, << <<"z", Num(1)>>, <<"a", NStr(2)>> >> >>))}
    \cup {Json(EmptyObjects(n)) : n \in 1..MaxRows}

IdleReq ==
    [pc |-> "idle", route |-> "none", body |-> NoBody, ml |-> FALSE, le |-> PyNone,
     model |-> PyNone, st1 |-> "none", st2 |-> "none", wr2 |-> 0,
     parsed |-> FALSE, loaded |-> FALSE, run |-> NoRun, resp |-> NoResp]

Init ==
    /\ disk \in Artifacts
    /\ cached = PyNone
    /\ config = [MODEL |-> PyNone, LOAD_ERROR |-> PyNone, MODEL_LOADED |-> FALSE]
    /\ createPc = "register"
    /\ loaderPc = "unstarted"
    /\ loaderWrites = <<>>
    /\ loaderIdx = 0
    /\ reqs = [r \in Req |-> IdleReq]
    /\ nPc = "off"
    /\ nModel = PyNone
    /\ nPayload = JNull
    /\ nDf = EmptyDf
    /\ nRes = NoRun
    /\ sCall = NoCall
    /\ sLast = PyNone

\* create_app: Thread(...).start()
CreateAppStartLoader ==
    /\ createPc = "register"
    /\ createPc' = "started"
    /\ loaderPc' = "get_model"
    /\ UNCHANGED <<disk, cached, config, loaderWrites, loaderIdx, reqs>>
    /\ UNCHANGED normVars
    /\ UNCHANGED storeVars

\* create_app: return app; from here on requests are served
CreateAppReturn ==
    /\ createPc = "started"
    /\ createPc' = "returned"
    /\ UNCHANGED <<disk, cached, config, loaderPc, loaderWrites, loaderIdx, reqs>>
    /\ UNCHANGED normVars
    /\ UNCHANGED storeVars

\* _background_model_loader: get_model(path, reload=True), and the branch taken
LoaderGetModel ==
    /\ loaderPc = "get_model"
    /\ LET got == get_model(cached, disk, TRUE)
       IN /\ cached' = got.cache
          /\ loaderWrites' = IF Raised(got) THEN FailureWrites(got.exc.msg)
                             ELSE SuccessWrites(got.model)
    /\ loaderPc' = "write"
    /\ UNCHANGED <<disk, config, createPc, loaderIdx, reqs>>
    /\ UNCHANGED normVars
    /\ UNCHANGED storeVars

\* _background_model_loader: one assignment to app.config
LoaderWrite ==
    /\ loaderPc = "write"
    /\ loaderIdx < Len(loaderWrites)
    /\ LET w == loaderWrites[loaderIdx + 1]
       IN config' = [config EXCEPT ![w[1]] = w[2]]
    /\ loaderIdx' = loaderIdx + 1
    /\ loaderPc' = IF loaderIdx + 1 = Len(loaderWrites) THEN "done" ELSE "write"
    /\ UNCHANGED <<disk, cached, createPc, loaderWrites, reqs>>
    /\ UNCHANGED normVars
    /\ UNCHANGED storeVars

Serving(r) == createPc = "returned" /\ reqs[r].pc \in {"idle", "done"}

Unchanged_app == UNCHANGED <<disk, config, createPc, loaderPc, loaderWrites, loaderIdx>>

\* backend/api/predict.py predict: the read of MODEL_LOADED
PredictReadLoaded(r) ==
    /\ Serving(r)
    /\ \E body \in Bodies :
         reqs' = [reqs EXCEPT ![r] =
                    [IdleReq EXCEPT !.pc = "read_error", !.route = "predict", !.body = body,
                                    !.ml = config.MODEL_LOADED, !.st1 = Readiness]]
    /\ Unchanged_app
    /\ UNCHANGED cached
    /\ UNCHANGED normVars
    /\ UNCHANGED storeVars

\* predict: the read of LOAD_ERROR, the gate, and the parsing of the body
PredictGateAndParse(r) ==
    /\ reqs[r].pc = "read_error"
    /\ reqs[r].route = "predict"
    /\ LET q == [reqs[r] EXCEPT !.le = config.LOAD_ERROR, !.st2 = Readiness,
                                !.wr2 = loaderIdx]
           gate == PredictGate(q.ml, q.le)
           bad == ParseResponse(q.body)
       IN reqs' = [reqs EXCEPT ![r] =
                     IF gate # NoResp THEN [q EXCEPT !.pc = "done", !.resp = gate]
                     ELSE IF bad # NoResp
                     THEN [q EXCEPT !.pc = "done", !.parsed = TRUE, !.resp = bad]
                     ELSE [q EXCEPT !.pc = "run", !.parsed = TRUE]]
    /\ Unchanged_app
    /\ UNCHANGED cached
    /\ UNCHANGED normVars
    /\ UNCHANGED storeVars

\* predict: run_prediction(payload) and the response
PredictRun(r) ==
    /\ reqs[r].pc = "run"
    /\ LET out == run_prediction(cached, disk, reqs[r].body.json)
       IN /\ cached' = out.store.cache
          /\ reqs' = [reqs EXCEPT ![r] =
                        [reqs[r] EXCEPT !.pc = "done", !.model = out.store.model,
                                        !.loaded = out.store.loaded, !.run = out.run,
                                        !.resp = PredictionResponse(out.run)]]
    /\ Unchanged_app
    /\ UNCHANGED normVars
    /\ UNCHANGED storeVars

\* backend/api/health.py ready: the read of MODEL_LOADED
ReadyReadLoaded(r) ==
    /\ Serving(r)
    /\ reqs' = [reqs EXCEPT ![r] =
                  [IdleReq EXCEPT !.pc = "read_error", !.route = "ready",
                                  !.ml = config.MODEL_LOADED, !.st1 = Readiness]]
    /\ Unchanged_app
    /\ UNCHANGED cached
    /\ UNCHANGED normVars
    /\ UNCHANGED storeVars

\* ready: the read of LOAD_ERROR and the response
ReadyRespond(r) ==
    /\ reqs[r].pc = "read_error"
    /\ reqs[r].route = "ready"
    /\ reqs' = [reqs EXCEPT ![r] =
                  [reqs[r] EXCEPT !.pc = "done", !.le = config.LOAD_ERROR, !.st2 = Readiness,
                                  !.wr2 = loaderIdx,
                                  !.resp = ReadyResponse(reqs[r].ml, config.LOAD_ERROR)]]
    /\ Unchanged_app
    /\ UNCHANGED cached
    /\ UNCHANGED normVars
    /\ UNCHANGED storeVars

\* backend/api/index.py index: static documentation
Index(r) ==
    /\ Serving(r)
    /\ reqs' = [reqs EXCEPT ![r] =
                  [IdleReq EXCEPT !.pc = "done", !.route = "index",
                                  !.resp = [status |-> 200, message |-> "Bus delay API running"]]]
    /\ Unchanged_app
    /\ UNCHANGED cached
    /\ UNCHANGED normVars
    /\ UNCHANGED storeVars

\* backend/api/health.py favicon
Favicon(r) ==
    /\ Serving(r)
    /\ reqs' = [reqs EXCEPT ![r] =
                  [IdleReq EXCEPT !.pc = "done", !.route = "favicon", !.resp = [status |-> 204]]]
    /\ Unchanged_app
    /\ UNCHANGED cached
    /\ UNCHANGED normVars
    /\ UNCHANGED storeVars

\* backend/api.py predict: the read of MODEL
LegacyReadModel(r) ==
    /\ Serving(r)
    /\ \E body \in Bodies :
         reqs' = [reqs EXCEPT ![r] =
                    [IdleReq EXCEPT !.pc = "legacy_read_error", !.route = "legacy_predict",
                                    !.body = body, !.model = config.MODEL, !.st1 = Readiness]]
    /\ Unchanged_app
    /\ UNCHANGED cached
    /\ UNCHANGED normVars
    /\ UNCHANGED storeVars

\* backend/api.py predict: the read of LOAD_ERROR
LegacyReadError(r) ==
    /\ reqs[r].pc = "legacy_read_error"
    /\ reqs' = [reqs EXCEPT ![r] = [reqs[r] EXCEPT !.pc = "legacy_read_loaded",
                                                   !.le = config.LOAD_ERROR]]
    /\ Unchanged_app
    /\ UNCHANGED cached
    /\ UNCHANGED normVars
    /\ UNCHANGED storeVars

\* backend/api.py predict: the read of MODEL_LOADED, the gate, the parsing of
\* the body and predict_with_model on the handle read first
LegacyGateAndPredict(r) ==
    /\ reqs[r].pc = "legacy_read_loaded"
    /\ LET q == [reqs[r] EXCEPT !.ml = config.MODEL_LOADED, !.st2 = Readiness,
                                !.wr2 = loaderIdx]
           gate == PredictGate(q.ml, q.le)
           bad == ParseResponse(q.body)
           run == predict_with_model(q.model, q.body.json)
       IN reqs' = [reqs EXCEPT ![r] =
                     IF gate # NoResp THEN [q EXCEPT !.pc = "done", !.resp = gate]
                     ELSE IF bad # NoResp
                     THEN [q EXCEPT !.pc = "done", !.parsed = TRUE, !.resp = bad]
                     ELSE [q EXCEPT !.pc = "done", !.parsed = TRUE, !.run = run,
                                    !.resp = PredictionResponse(run)]]
    /\ Unchanged_app
    /\ UNCHANGED cached
    /\ UNCHANGED normVars
    /\ UNCHANGED storeVars

Next ==
    \/ CreateAppStartLoader
    \/ CreateAppReturn
    \/ LoaderGetModel
    \/ LoaderWrite
    \/ \E r \in Req : PredictReadLoaded(r)
    \/ \E r \in Req : PredictGateAndParse(r)
    \/ \E r \in Req : PredictRun(r)
    \/ \E r \in Req : ReadyReadLoaded(r)
    \/ \E r \in Req : ReadyRespond(r)
    \/ \E r \in Req : Index(r)
    \/ \E r \in Req : Favicon(r)

\* the application as create_app builds it: the blueprint of the backend/api package
Spec == Init /\ [][Next]_vars

NextLegacy ==
    \/ CreateAppStartLoader
    \/ CreateAppReturn
    \/ LoaderGetModel
    \/ LoaderWrite
    \/ \E r \in Req : LegacyReadModel(r)
    \/ \E r \in Req : LegacyReadError(r)
    \/ \E r \in Req : LegacyGateAndPredict(r)
    \/ \E r \in Req : ReadyReadLoaded(r)
    \/ \E r \in Req : ReadyRespond(r)

\* the same application with the single-module blueprint of backend/api.py
SpecLegacy == Init /\ [][NextLegacy]_vars

(***************************************************************************)
(* The lifecycle with a loader thread that is scheduled                    *)
(***************************************************************************)
\* the handler that serves the readiness probe, next to the /predict handlers
ProbeSlot == NumReq + 1
FairSlots == Req \cup {ProbeSlot}

\* what the artifact path can hold here: a load that raises, a load that returns
FairArtifacts == {"missing", "XGBRegressor"}

InitFair ==
    /\ disk \in FairArtifacts
    /\ cached = PyNone
    /\ config = [MODEL |-> PyNone, LOAD_ERROR |-> PyNone, MODEL_LOADED |-> FALSE]
    /\ createPc = "register"
    /\ loaderPc = "unstarted"
    /\ loaderWrites = <<>>
    /\ loaderIdx = 0
    /\ reqs = [r \in FairSlots |-> IdleReq]
    /\ nPc = "off"
    /\ nModel = PyNone
    /\ nPayload = JNull
    /\ nDf = EmptyDf
    /\ nRes = NoRun
    /\ sCall = NoCall
    /\ sLast = PyNone

NextFair ==
    \/ CreateAppStartLoader
    \/ CreateAppReturn
    \/ LoaderGetModel
    \/ LoaderWrite
    \/ \E r \in Req : PredictReadLoaded(r)
    \/ \E r \in Req : PredictGateAndParse(r)
    \/ \E r \in Req : PredictRun(r)
    \/ ReadyReadLoaded(ProbeSlot)
    \/ ReadyRespond(ProbeSlot)

\* create_app runs to its return, the loader thread is scheduled and the
\* load call returns or raises; requests arrive or not
SpecFair ==
    /\ InitFair
    /\ [][NextFair]_vars
    /\ WF_vars(CreateAppStartLoader)
    /\ WF_vars(CreateAppReturn)
    /\ WF_vars(LoaderGetModel)
    /\ WF_vars(LoaderWrite)

(***************************************************************************)
(* predict_with_model as a pure function of its arguments                  *)
(***************************************************************************)
Cells == {Num(1), NStr(2), StrX}
PayloadColumns == {"a", "z"}

KeySeqs ==
    {<<>>} \cup {<<k>> : k \in PayloadColumns}
           \cup {ks \in PayloadColumns \X PayloadColumns : ks[1] # ks[2]}

ObjectsOver(values) ==
    UNION {{[i \in 1..Len(ks) |-> <<ks[i], vs[i]>>] : vs \in [1..Len(ks) -> values]} : ks \in KeySeqs}

\* JSON objects whose values are scalars
Records == ObjectsOver(Cells)
CellLists == UNION {[1..n -> Cells] : n \in 0..MaxRows}
\* JSON objects whose values are scalars or lists of scalars
ColumnObjects == ObjectsOver(Cells \cup {ListVal(l) : l \in CellLists})

Payloads ==
    {JScalar}
    \cup {JObject(o) : o \in ColumnObjects}
    \cup {JList(items) : items \in UNION {[1..n -> Records] : n \in 0..MaxRows}}

InitNorm ==
    /\ disk = "missing"
    /\ cached = PyNone
    /\ config = [MODEL |-> PyNone, LOAD_ERROR |-> PyNone, MODEL_LOADED |-> FALSE]
    /\ createPc = "register"
    /\ loaderPc = "unstarted"
    /\ loaderWrites = <<>>
    /\ loaderIdx = 0
    /\ reqs = [r \in Req |-> IdleReq]
    /\ nPc = "call"
    /\ nModel \in HandleNames \cup {PyNone}
    /\ nPayload \in Payloads
    /\ nDf = EmptyDf
    /\ nRes = NoRun
    /\ sCall = NoCall
    /\ sLast = PyNone

\* predict_with_model: df = _payload_to_dataframe(payload, model=model)
NormBuild ==
    /\ nPc = "call"
    /\ LET norm == payload_to_dataframe(nPayload, nModel)
       IN IF Raised(norm)
          THEN /\ nPc' = "raised"
               /\ nRes' = predict_with_model(nModel, nPayload)
               /\ UNCHANGED nDf
          ELSE /\ nPc' = "normalized"
               /\ nDf' = norm.df
               /\ UNCHANGED nRes
    /\ UNCHANGED <<nModel, nPayload>>
    /\ UNCHANGED lifeVars
    /\ UNCHANGED storeVars

\* predict_with_model: the dispatch, the library call and the returned list
NormPredict ==
    /\ nPc = "normalized"
    /\ nRes' = predict_with_model(nModel, nPayload)
    /\ nPc' = IF Raised(nRes') THEN "raised" ELSE "returned"
    /\ UNCHANGED <<nModel, nPayload, nDf>>
    /\ UNCHANGED lifeVars
    /\ UNCHANGED storeVars

NextNorm == NormBuild \/ NormPredict

SpecNorm == InitNorm /\ [][NextNorm]_vars

(***************************************************************************)
(* The model store under sequences of get_model calls                      *)
(***************************************************************************)
\* what a path given to get_model can hold
StoreArtifacts == LoadFailures \cup HandleNames

InitStore ==
    /\ disk \in StoreArtifacts
    /\ cached = PyNone
    /\ config = [MODEL |-> PyNone, LOAD_ERROR |-> PyNone, MODEL_LOADED |-> FALSE]
    /\ createPc = "register"
    /\ loaderPc = "unstarted"
    /\ loaderWrites = <<>>
    /\ loaderIdx = 0
    /\ reqs = [r \in Req |-> IdleReq]
    /\ nPc = "off"
    /\ nModel = PyNone
    /\ nPayload = JNull
    /\ nDf = EmptyDf
    /\ nRes = NoRun
    /\ sCall = NoCall
    /\ sLast = PyNone

\* get_model(path, reload): one call, with the assignment to _CACHED_MODEL
StoreGet ==
    /\ \E reload \in BOOLEAN :
         LET got == get_model(cached, disk, reload)
         IN /\ cached' = got.cache
            /\ sCall' = [reload |-> reload, before |-> cached, artifact |-> disk,
                         exc |-> got.exc, model |-> got.model, loaded |-> got.loaded,
                         made |-> TRUE]
            /\ sLast' = IF got.loaded /\ ~Raised(got) THEN got.model ELSE sLast
    /\ UNCHANGED <<disk, config, createPc, loaderPc, loaderWrites, loaderIdx, reqs>>
    /\ UNCHANGED normVars

\* between two calls the artifact is replaced, or the next call names a path
\* that holds something else
StorePathHolds ==
    /\ \E artifact \in StoreArtifacts \ {disk} : disk' = artifact
    /\ UNCHANGED <<cached, config, createPc, loaderPc, loaderWrites, loaderIdx, reqs>>
    /\ UNCHANGED normVars
    /\ UNCHANGED storeVars

NextStore == StoreGet \/ StorePathHolds

SpecStore == InitStore /\ [][NextStore]_vars

(***************************************************************************)
(* Properties                                                              *)
(***************************************************************************)
Done(r) == reqs[r].pc = "done"
IsPredict(r) == reqs[r].route \in {"predict", "legacy_predict"}
LoadRaised == disk \in LoadFailures
\* str(e) of the exception the load raises for what the path holds
FailureMessage ==
    CASE disk = "missing" -> "Model file not found at PATH"
      [] disk = "unpickling_error" -> "Failed to load model from PATH"
      [] disk = "io_error" -> "Unexpected error loading model from PATH"
      [] disk = "pickled_none" -> "Model loaded from PATH is None"
      [] OTHER -> PyNone
StillLoading503 == [status |-> 503, error |-> "Model is still loading, try again shortly"]
LoadFailed500 == [status |-> 500, error |-> "Model failed to load", details |-> FailureMessage]

\* C1: /predict is gated by readiness before the body is looked at.  A request
\* whose reads of app.config all fall in the loading state is answered 503; a
\* request that starts in the failed state is answered 500 with the stored
\* error as details; a 503 or a load-failure 500 is only ever given for a state
\* that held at one of the request's reads; and the body is parsed, and the
\* model reached, only once the state is ready.  All of it for every body.
C1_PredictGatedByReadiness ==
    \A r \in Req :
        /\ (reqs[r].parsed \/ reqs[r].run # NoRun \/ reqs[r].pc = "run") => Readiness = "ready"
        /\ (Done(r) /\ IsPredict(r)) =>
             /\ (reqs[r].st1 = "loading" /\ reqs[r].st2 = "loading") =>
                    (reqs[r].resp = StillLoading503 /\ ~reqs[r].parsed)
             /\ reqs[r].st1 = "failed" =>
                    (reqs[r].resp = LoadFailed500 /\ reqs[r].resp.details = config.LOAD_ERROR
                     /\ ~reqs[r].parsed)
             /\ reqs[r].resp.status = 503 => reqs[r].st1 = "loading"
             /\ reqs[r].resp = LoadFailed500 => reqs[r].st2 = "failed"
             /\ reqs[r].parsed => reqs[r].st2 = "ready"
             /\ reqs[r].st1 = "ready" => reqs[r].parsed
             /\ reqs[r].resp.status \in {503, 500} /\ ~reqs[r].parsed =>
                    reqs[r].resp \in {StillLoading503, LoadFailed500}

C1_Witness ==
    \E r \in Req :
        /\ Done(r) /\ reqs[r].route = "predict" /\ reqs[r].body = BodyMalformed
        /\ reqs[r].st1 = "failed" /\ reqs[r].resp.status = 500
        /\ reqs[r].resp.details = "Model file not found at PATH"

C3_ReadinessTransitions ==
    /\ Readiness = "loading"
    /\ [][/\ Readiness # "loading" => config' = config
          /\ Readiness' # Readiness =>
               /\ Readiness = "loading"
               /\ Readiness' = IF LoadRaised THEN "failed" ELSE "ready"
               /\ loaderPc = "write"]_vars

C3_Witness ==
    /\ loaderPc = "done"
    /\ Readiness = "ready"
    /\ \E r \in Req : Done(r) /\ reqs[r].route = "predict" /\ reqs[r].resp.status = 200

DecisiveWrite == IF LoadRaised THEN 2 ELSE 3

C6_ModelErrorsAre500 ==
    \A r \in Req :
        (Done(r) /\ IsPredict(r) /\ reqs[r].run.source = "model") =>
            reqs[r].resp = [status |-> 500, error |-> "Prediction failed",
                            details |-> "Internal server error"]

\* C7: in the ready state a body that is malformed JSON, empty, the JSON value
\* null, or a JSON string, number or boolean is answered 400 with an error
\* field, and the model's predict is not called for it.
C7_BadBodies400 ==
    \A r \in Req :
        (/\ Done(r) /\ IsPredict(r)
         /\ reqs[r].st1 = "ready"
         /\ reqs[r].body \in {BodyMalformed, BodyEmpty, Json(JNull), Json(JScalar)})
        => /\ reqs[r].resp.status = 400
           /\ "error" \in DOMAIN reqs[r].resp
           /\ reqs[r].resp.error \in {"Invalid JSON", "Empty request body", "Unsupported JSON format"}
           /\ ~reqs[r].run.invoked
           /\ reqs[r].run.source \in {"none", "normalizer"}

C7_Witness ==
    \E r \in Req :
        /\ Done(r) /\ reqs[r].route = "predict" /\ reqs[r].st1 = "ready"
        /\ reqs[r].body = Json(JScalar)
        /\ reqs[r].resp.status = 400 /\ reqs[r].resp.error = "Unsupported JSON format"

IsEmptyObjects(body) == \E n \in 1..MaxRows : body = Json(EmptyObjects(n))

\* C8 as stated: in the ready state an array of empty objects is answered 400
\* or 500, never 200.
C8_EmptyObjectsNever200 ==
    \A r \in Req :
        (Done(r) /\ IsPredict(r) /\ reqs[r].st1 = "ready" /\ IsEmptyObjects(reqs[r].body))
        => reqs[r].resp.status \in {400, 500}

\* whether the loaded handle's predict accepts a row-set of all-missing rows:
\* with a feature list the rows are its columns, all null; without one the
\* row-set has no columns at all
AcceptsAllMissing(h) ==
    IF Handles[h].hasFeatures THEN Handles[h].nullOk ELSE ~Handles[h].validates

\* C8 amended: in the ready state an array of N empty objects is never rejected
\* by normalization; it reaches the model as N all-missing rows and the model's
\* predict alone decides the answer: 200 with N predictions when it accepts
\* them, 400 when it raises a ValueError, 500 when it raises anything else;
\* the same for every N.
C8_EmptyObjectsDecidedByModel ==
    \A r \in Req :
        (Done(r) /\ IsPredict(r) /\ reqs[r].st1 = "ready" /\ IsEmptyObjects(reqs[r].body))
        => /\ reqs[r].run.source \in {"none", "model"}
           /\ AcceptsAllMissing(disk) =>
                /\ reqs[r].resp.status = 200
                /\ Len(reqs[r].resp.predictions.vals) = Len(reqs[r].body.json.items)
           /\ ~AcceptsAllMissing(disk) =>
                reqs[r].resp.status = IF Handles[disk].errType = "ValueError" THEN 400 ELSE 500

C8_Witness ==
    \E r \in Req :
        /\ Done(r) /\ reqs[r].route = "predict" /\ reqs[r].st1 = "ready"
        /\ reqs[r].body = Json(EmptyObjects(2))
        /\ reqs[r].resp.status = 200
        /\ Len(reqs[r].resp.predictions.vals) = 2

(***************************************************************************)
(* Properties of predict_with_model (SpecNorm)                             *)
(***************************************************************************)
IsColumnOriented(p) == p.kind = "object" /\ \E i \in 1..Len(p.obj) : IsList(p.obj[i][2])
ListLengths(p) == {Len(p.obj[i][2].l) : i \in {j \in 1..Len(p.obj) : IsList(p.obj[j][2])}}
Accepted(p) == p.kind \in {"object", "list"} /\ (IsColumnOriented(p) => Cardinality(ListLengths(p)) = 1)

\* the rows the payload describes, its column names, and the value it gives
\* row i in column c (null where it gives none)
RowCount(p) ==
    IF p.kind = "list" THEN Len(p.items)
    ELSE IF IsColumnOriented(p) THEN CHOOSE n \in ListLengths(p) : TRUE
    ELSE 1
PayloadKeys(p) ==
    IF p.kind = "list" THEN UNION {KeySet(p.items[i]) : i \in 1..Len(p.items)} ELSE KeySet(p.obj)
PayloadCell(p, i, c) ==
    IF p.kind = "list"
    THEN IF c \in KeySet(p.items[i]) THEN ValueOf(p.items[i], c) ELSE Null
    ELSE IF c \notin KeySet(p.obj) THEN Null
    ELSE IF IsList(ValueOf(p.obj, c)) THEN ValueOf(p.obj, c).l[i]
    ELSE ValueOf(p.obj, c)
\* the same value after the numeric coercion of its column
CoercedCell(p, i, c) ==
    IF /\ PayloadCell(p, i, c).t = "nstr"
       /\ \A k \in 1..RowCount(p) : PayloadCell(p, k, c).t \in {"num", "nstr", "null"}
    THEN Num(PayloadCell(p, i, c).v)
    ELSE PayloadCell(p, i, c)

HasFeatureList == nModel # PyNone /\ Handles[nModel].hasFeatures

\* C9 as stated: for a list payload of N objects that is accepted, the row-set
\* has N rows, row i built from element i, and the returned predictions are a
\* sequence of length N whose entry i is the model's output for row i, whether
\* the model returned an array or a scalar.
C9_ListPredictionsInOrder ==
    (nPc = "returned" /\ nPayload.kind = "list") =>
        /\ Len(nDf.rows) = Len(nPayload.items)
        /\ \A i \in 1..Len(nDf.rows) : \A c \in ColumnSet(nDf) :
               nDf.rows[i][c] = CoercedCell(nPayload, i, c)
        /\ nRes.preds.json = "array"
        /\ Len(nRes.preds.vals) = Len(nPayload.items)
        /\ \A i \in 1..Len(nPayload.items) : nRes.preds.vals[i] = RowScore(nDf, i)

\* C10 as stated: with a feature list F the row-set's columns are F in order,
\* features the payload lacks are null in every row and the values of retained
\* columns are those of the payload; without one the payload's columns pass
\* through; normalization fails only for an unsupported shape.
C10_ReindexValuesUnchanged ==
    /\ nPc \in {"normalized", "returned"} =>
         /\ Len(nDf.rows) = RowCount(nPayload)
         /\ HasFeatureList =>
              /\ nDf.columns = Handles[nModel].features
              /\ \A i \in 1..Len(nDf.rows) : \A c \in ColumnSet(nDf) :
                     nDf.rows[i][c] = PayloadCell(nPayload, i, c)
         /\ ~HasFeatureList =>
              /\ ColumnSet(nDf) = PayloadKeys(nPayload)
              /\ nPayload.kind = "object" => nDf.columns = Keys(nPayload.obj)
    /\ (nPc # "call" /\ nRes.source = "normalizer") <=> (nPc # "call" /\ ~Accepted(nPayload))

\* C10 amended: as stated, except that the values of retained columns are those
\* of the payload after the numeric coercion: in a column whose values are all
\* numbers, numeric strings or null each numeric string is replaced by its
\* number, and every other value is unchanged.
C10_ReindexThenCoerce ==
    /\ nPc \in {"normalized", "returned"} =>
         /\ Len(nDf.rows) = RowCount(nPayload)
         /\ HasFeatureList =>
              /\ nDf.columns = Handles[nModel].features
              /\ \A i \in 1..Len(nDf.rows) : \A c \in ColumnSet(nDf) :
                     /\ c \notin PayloadKeys(nPayload) => nDf.rows[i][c] = Null
                     /\ nDf.rows[i][c] = CoercedCell(nPayload, i, c)
         /\ ~HasFeatureList =>
              /\ ColumnSet(nDf) = PayloadKeys(nPayload)
              /\ Len(nDf.columns) = Cardinality(PayloadKeys(nPayload))
              /\ nPayload.kind = "object" => nDf.columns = Keys(nPayload.obj)
              /\ \A i \in 1..Len(nDf.rows) : \A c \in ColumnSet(nDf) :
                     nDf.rows[i][c] = CoercedCell(nPayload, i, c)
    /\ (nPc # "call" /\ nRes.source = "normalizer") <=> (nPc # "call" /\ ~Accepted(nPayload))

C10_Witness ==
    /\ nPc = "normalized"
    /\ nModel = "XGBRegressor"
    /\ nPayload = JObject(<< <<"a", NStr(2)>>, <<"z", Num(1)>> >>)
    /\ nDf = [columns |-> <<"c", "a">>, rows |-> << [c |-> Null, a |-> Num(2)] >>]

\* C11: the model store under any sequence of get_model(path, reload) calls.
\* The cache always holds the handle of the most recent successful load, and
\* is empty while none has succeeded.  A call loads exactly when reload is
\* asked for or the cache is empty; otherwise it returns the cached handle and
\* does not read the artifact.  A load that succeeds returns and caches what
\* the path holds; a load that fails raises and leaves the cache as it was.
C11_StoreKeepsLastGoodLoad ==
    /\ cached = sLast
    /\ sCall.made =>
         /\ sCall.loaded <=> (sCall.reload \/ sCall.before = PyNone)
         /\ ~sCall.loaded =>
              (~Raised(sCall) /\ sCall.model = sCall.before /\ cached = sCall.before)
         /\ (sCall.loaded /\ sCall.artifact \in LoadFailures) =>
              (Raised(sCall) /\ cached = sCall.before)
         /\ (sCall.loaded /\ sCall.artifact \notin LoadFailures) =>
              (~Raised(sCall) /\ sCall.model = sCall.artifact /\ cached = sCall.artifact)

\* a reload that failed while an earlier handle was cached, the handle still
\* being there
C11_Witness ==
    /\ sCall.made /\ sCall.reload /\ Raised(sCall)
    /\ sCall.before \in HandleNames
    /\ cached = sCall.before

\* C12: request handling leaves the shared state alone.  Every step of a
\* /predict, /ready, / or /favicon.ico handler, for every body and in every
\* readiness state, leaves MODEL, LOAD_ERROR, MODEL_LOADED and the cached model
\* handle as they were; and a /predict request that got as far as the
\* prediction took the handle from the cache without reading the artifact.
C12_RequestsLeaveSharedState ==
    [][(reqs' # reqs) =>
          /\ config' = config
          /\ cached' = cached
          /\ \A r \in Req :
                (reqs'[r].route = "predict" /\ reqs'[r].run # NoRun) =>
                    (~reqs'[r].loaded /\ reqs'[r].model = cached)]_vars

\* a /predict request answered 200 in the ready state from the cached handle
C12_Witness ==
    \E r \in Req :
        /\ Done(r) /\ reqs[r].route = "predict"
        /\ reqs[r].resp.status = 200
        /\ ~reqs[r].loaded
        /\ reqs[r].model = cached /\ cached = config.MODEL /\ cached # PyNone

\* C13: a /predict request that reaches the prediction step passes on the
\* non-null handle the loader stored, however the handler's reads of MODEL,
\* LOAD_ERROR and MODEL_LOADED interleave with the loader's three writes: the
\* prediction is never called with None, and a 500 "Prediction failed" never
\* comes from a handle read before the loader wrote it.
C13_PredictionGetsLoadedHandle ==
    \A r \in Req :
        (IsPredict(r) /\ reqs[r].run # NoRun) =>
            /\ reqs[r].model # PyNone
            /\ reqs[r].model = config.MODEL
            /\ reqs[r].run.source # "handle"

\* C14: app.config is consistent in every reachable state, the states between
\* two writes of the loader included.  MODEL_LOADED is true only if MODEL is
\* set and LOAD_ERROR is None; LOAD_ERROR is set only if MODEL is None and
\* MODEL_LOADED is false; ready and failed are never seen together.
C14_ConfigConsistent ==
    /\ config.MODEL_LOADED => (config.MODEL # PyNone /\ config.LOAD_ERROR = PyNone)
    /\ config.LOAD_ERROR # PyNone => (config.MODEL = PyNone /\ ~config.MODEL_LOADED)
    /\ ~(Readiness = "ready" /\ Truthy(config.LOAD_ERROR))

\* the loader between its writes: the handle stored and the flag not yet set
C14_Witness ==
    /\ loaderPc = "write" /\ loaderIdx \in 1..2
    /\ config.MODEL # PyNone
    /\ ~config.MODEL_LOADED

\* the readiness probe has been answered 200 or 500
ProbeAnswered ==
    /\ Done(ProbeSlot) /\ reqs[ProbeSlot].route = "ready"
    /\ reqs[ProbeSlot].resp.status \in {200, 500}

====
